---- MODULE Spec2Model ----
(***************************************************************************)
(* Model of pgi/overrides/__init__.py: the override loader (load), the     *)
(* proxy module (OverridesProxyModule), the deprecated attribute           *)
(* descriptor (_DeprecatedAttribute), the registration helpers (override,  *)
(* deprecated_attr), and the two adapters deprecated_init and              *)
(* strip_boolean_result.                                                   *)
(*                                                                         *)
(* Python objects are named by strings, dictionaries are functions whose   *)
(* DOMAIN is the set of keys, an exception is the name of its class ("" is *)
(* no exception).                                                          *)
(***************************************************************************)
EXTENDS Integers, Sequences, FiniteSets, TLC

(***************************************************************************)
(* Bounds of the model.                                                    *)
(***************************************************************************)
\* load() calls made in one behaviour
MaxLoads == 2
\* deprecated_attr(), override(), setattr and delattr calls made in one
\* behaviour
MaxCalls == 3
\* length of an override unit's __all__
MaxAll == 2

(***************************************************************************)
(* Dictionaries.                                                           *)
(***************************************************************************)
EmptyDict == [k \in {} |-> ""]

Put(d, key, v) == [k \in DOMAIN d \cup {key} |-> IF k = key THEN v ELSE d[k]]

Del(d, key) == [k \in DOMAIN d \ {key} |-> d[k]]

Range(seq) == {seq[i] : i \in 1..Len(seq)}

Min(a, b) == IF a <= b THEN a ELSE b

(***************************************************************************)
(* The names of the model, in the order Python's sorted() gives strings    *)
(* (code points: upper case letters, then "_", then lower case letters).   *)
(***************************************************************************)
NameOrder ==
    << "A", "B", "C", "__dir__", "__getattr__", "__init__", "__name__",
       "__repr__", "_introspection_module", "a", "b", "old_x", "old_y", "x",
       "y" >>

Ord(n) == CHOOSE i \in 1..Len(NameOrder) : NameOrder[i] = n

\* sorted(result) of a set of names
RECURSIVE sorted(_)
sorted(S) ==
    IF S = {} THEN << >>
    ELSE LET m == CHOOSE x \in S : \A y \in S : Ord(x) <= Ord(y)
         IN  << m >> \o sorted(S \ {m})

\* The attributes a namespace's module and its override unit may define.
AttrNames == {"A", "B", "C"}
\* The names an override unit may define and export.
UnitNames == {"A", "C"}
\* Names every proxy type inherits from OverridesProxyModule.
ClassNames == {"__dir__", "__getattr__", "__init__", "__repr__"}

Namespaces == {"Gtk", "GLib"}

\* const.PREFIX: the alias prefixes a namespace is registered under.
PREFIX == << "pgi.repository", "gi.repository" >>

\* The introspected module object handed to load(namespace, module).
ModObj(ns) == "module:" \o ns
\* The object an override unit binds to one of its names.
OvObj(ns, n) == "override:" \o ns \o "." \o n
\* The class an override unit passes to override(): it derives from the
\* introspected class of that name.
KlassObj(ns, n) == "klass:" \o ns \o "." \o n
\* The function an override unit decorates with override(function): it
\* replaces the introspected function of that name.
FuncObj(ns, n) == "function:" \o ns \o "." \o n
\* Values application code assigns to proxy attributes.
UserValues == {"u1", "u2"}
\* Errors an override unit may raise while it is evaluated.
UnitErrors == {"ImportError", "ValueError"}
\* Replacement descriptions given to deprecated_attr.
Replacements == {"new"}

VARIABLES
    unit_exists,        \* namespace -> an override unit file exists
    mod_dict,           \* namespace -> attributes of the introspected module
    sys_modules,        \* sys.modules: alias key -> module object or proxy
    imported,           \* namespace -> the evaluated (cached) override module
    proxies,            \* proxy -> its instance __dict__ and its type's dict
    deprecated_attrs,   \* _deprecated_attrs: namespace -> <<attr, replacement>>*
    dunder_module,      \* object -> its __module__, split at "."
    dunder_name,        \* object -> its __name__, once it was renamed
    frame,              \* the load() call in progress
    loads,              \* load() calls made so far
    calls,              \* deprecated_attr(), override(), setattr and delattr
                        \* calls made so far
    released,           \* history: <<proxy, attr>> -> how the attribute's
                        \* descriptor left the proxy's type: by "set" (with
                        \* the value written) or by "delete"
    last,               \* the last call made and what it gave its caller
    init_call,          \* the last call of a deprecated_init initializer
    strip_call,         \* the last call of a strip_boolean_result wrapper
    dep_call            \* what deprecated returned, and the last call of it

loader_vars ==
    << unit_exists, mod_dict, sys_modules, imported, proxies, deprecated_attrs,
       dunder_module, dunder_name, frame, loads, calls, released, last >>

adapter_vars == << init_call, strip_call, dep_call >>

vars == << loader_vars, adapter_vars >>

(***************************************************************************)
(* Attribute access.  A call's outcome is a record: exc is the exception   *)
(* raised ("" when none), value what it returned, warnings the warnings    *)
(* it handed to warnings.warn, in order.                                   *)
(***************************************************************************)
Returned(v, w) == [exc |-> "", value |-> v, warnings |-> w]

Raised(e, w) == [exc |-> e, value |-> "", warnings |-> w]

\* The namespace of an introspected module object.
ModNs(obj) == CHOOSE ns \in Namespaces : ModObj(ns) = obj

\* getattr(module, name) on an introspected module.
ModuleGetattr(mods, ns, name) ==
    IF name \in DOMAIN mods[ns]
    THEN Returned(mods[ns][name], << >>)
    ELSE Raised("AttributeError", << >>)

\* _DeprecatedAttribute.__init__
DeprecatedAttribute(namespace, attr, value, replacement) ==
    [attr |-> attr, value |-> value,
     warning |-> << namespace, attr, replacement >>]

\* A faulty variant: the value is returned without a warning.
DescriptorGetSilent(desc) == Returned(desc.value, << >>)

\* _DeprecatedAttribute.__get__ with an instance: warn, return the value.
DescriptorGet(desc) == Returned(desc.value, << desc.warning >>)

\* OverridesProxyModule.__init__: the module's __init__ sets __name__, then
\* the proxy keeps the wrapped module; the proxy's type is a fresh one.
NewProxy(mods, ns) ==
    [dict |-> Put(Put(EmptyDict, "__name__", mods[ns]["__name__"]),
                  "_introspection_module", ModObj(ns)),
     type_dict |-> EmptyDict]

\* A faulty variant: the proxies of one introspected module share one type,
\* and with it the descriptors.
WithProxySharedType(ps, proxy, pr) ==
    [q \in DOMAIN ps \cup {proxy} |->
        IF q = proxy THEN pr
        ELSE IF ps[q].dict["_introspection_module"]
                   = pr.dict["_introspection_module"]
        THEN [ps[q] EXCEPT !.type_dict = pr.type_dict]
        ELSE ps[q]]

\* The proxies once proxy has the instance __dict__ and the type's dict of
\* pr: each load makes a type of its own for its proxy, so the type's dict
\* is that proxy's alone.
WithProxy(ps, proxy, pr) == Put(ps, proxy, pr)

\* A faulty variant: a lookup that misses the proxy fails instead of falling through.
ProxyFallbackMissing(pr, mods, name) == Raised("AttributeError", << >>)

\* OverridesProxyModule.__getattr__: called when the normal lookup fails.
ProxyFallback(pr, mods, name) ==
    ModuleGetattr(mods, ModNs(pr.dict["_introspection_module"]), name)

\* getattr(proxy, name): a data descriptor of the type first, then the
\* instance __dict__, then the class, then __getattr__.
Getattr(pr, mods, name) ==
    IF name \in DOMAIN pr.type_dict THEN DescriptorGet(pr.type_dict[name])
    ELSE IF name \in DOMAIN pr.dict THEN Returned(pr.dict[name], << >>)
    ELSE IF name \in ClassNames THEN Returned("method:" \o name, << >>)
    ELSE ProxyFallback(pr, mods, name)

\* A faulty variant: the instance attribute is set, the descriptor stays on the type.
DescriptorSetKeepsDescriptor(pr, attr, v) ==
    [pr EXCEPT !.dict = Put(@, attr, v)]

\* _DeprecatedAttribute.__set__: delete the descriptor from the type, then
\* set the instance attribute.
DescriptorSet(pr, attr, v) ==
    [pr EXCEPT !.type_dict = Del(@, attr), !.dict = Put(@, attr, v)]

\* setattr(proxy, name, v)
Setattr(pr, name, v) ==
    IF name \in DOMAIN pr.type_dict THEN DescriptorSet(pr, name, v)
    ELSE [pr EXCEPT !.dict = Put(@, name, v)]

\* A faulty variant: the descriptor is not removed from the type.
DescriptorDeleteNothing(pr, attr) == pr

\* _DeprecatedAttribute.__delete__: delete the descriptor from the type.
DescriptorDelete(pr, attr) == [pr EXCEPT !.type_dict = Del(@, attr)]

\* delattr(proxy, name): the proxy after it, and the exception raised.
Delattr(pr, name) ==
    IF name \in DOMAIN pr.type_dict
    THEN [exc |-> "", proxy |-> DescriptorDelete(pr, name)]
    ELSE IF name \in DOMAIN pr.dict
    THEN [exc |-> "", proxy |-> [pr EXCEPT !.dict = Del(@, name)]]
    ELSE [exc |-> "AttributeError", proxy |-> pr]

\* dir(module) of an introspected module: its attribute names.
ModuleDir(mods, ns) == DOMAIN mods[ns]

\* A faulty variant: the module's directory is appended after the proxy's own names.
ProxyDirAppended(pr, mods) ==
    sorted((DOMAIN pr.type_dict \cup ClassNames) \cup DOMAIN pr.dict)
    \o sorted(ModuleDir(mods, ModNs(pr.dict["_introspection_module"])))

\* OverridesProxyModule.__dir__
ProxyDir(pr, mods) ==
    sorted((DOMAIN pr.type_dict \cup ClassNames)
           \cup DOMAIN pr.dict
           \cup ModuleDir(mods, ModNs(pr.dict["_introspection_module"])))

(***************************************************************************)
(* load(namespace, module)                                                 *)
(***************************************************************************)
\* The key of a namespace in sys.modules under one alias prefix.
AliasKey(prefix, ns) == prefix \o "." \o ns

AliasKeys(ns) == {AliasKey(PREFIX[i], ns) : i \in 1..Len(PREFIX)}

\* A faulty variant: the proxy is registered under the first alias only.
RegisterFirstAlias(mods, ns, proxy) ==
    Put(mods, AliasKey(PREFIX[1], ns), proxy)

\* for prefix in const.PREFIX: sys.modules[prefix + "." + namespace] = proxy
RegisterAliases(mods, ns, proxy) ==
    [k \in DOMAIN mods \cup AliasKeys(ns) |->
        IF k \in AliasKeys(ns) THEN proxy ELSE mods[k]]

\* A faulty variant: only the first alias is reverted.
RevertFirstAlias(mods, ns, module) ==
    [k \in DOMAIN mods \cup AliasKeys(ns) |->
        IF k = AliasKey(PREFIX[1], ns) THEN module ELSE mods[k]]

\* for prefix in const.PREFIX: sys.modules[prefix + "." + namespace] = module
RevertAliases(mods, ns, module) ==
    [k \in DOMAIN mods \cup AliasKeys(ns) |->
        IF k \in AliasKeys(ns) THEN module ELSE mods[k]]

\* imp.find_module(namespace, paths): does the override unit exist at all.
FindModule(ns) == unit_exists[ns]

\* _compat.reraise(tp, value, tb): the error goes on to the caller.
reraise(tp, value) == value

\* A faulty variant: an ImportError of the unit is taken for an absent unit.
ExceptClauseByErrorType(mods, ns, err) ==
    IF err = "ImportError"
    THEN [sys_modules |-> RevertAliases(mods, ns, ModObj(ns)),
          out |-> Returned(ModObj(ns), << >>)]
    ELSE [sys_modules |-> mods, out |-> Raised(err, << >>)]

\* The except clause of load: an absent unit reverts the aliases and gives
\* the module back, a unit that is there has its error raised again.
ExceptClause(mods, ns, err) ==
    IF ~FindModule(ns)
    THEN [sys_modules |-> RevertAliases(mods, ns, ModObj(ns)),
          out |-> Returned(ModObj(ns), << >>)]
    ELSE [sys_modules |-> mods,
          out |-> Raised(reraise("ImportError", err), << >>)]

\* item.__module__ = namespace when its last component is the namespace;
\* an item without __module__ is left alone.
NormaliseModule(dm, item, ns) ==
    IF item \in DOMAIN dm /\ dm[item][Len(dm[item])] = ns
    THEN Put(dm, item, << ns >>)
    ELSE dm

\* for var in override_all: assert the unit defines it, set it on the proxy.
RECURSIVE CopyExports(_, _, _, _, _)
CopyExports(st, override_vars, override_all, ns, i) ==
    IF i > Len(override_all) THEN st
    ELSE LET var  == override_all[i]
             item == IF var \in DOMAIN override_vars
                     THEN override_vars[var] ELSE "None"
         IN  IF item = "None"
             THEN [st EXCEPT !.exc = "AssertionError"]
             ELSE CopyExports(
                     [st EXCEPT !.proxy = Setattr(@, var, item),
                                !.dunder_module = NormaliseModule(@, item, ns)],
                     override_vars, override_all, ns, i + 1)

\* One registered pair: read the value off the proxy, delete the attribute,
\* set a descriptor holding the value on the proxy's type.
InstallOne(st, mods, ns, attr, replacement) ==
    LET got == Getattr(st.proxy, mods, attr)
        del == Delattr(st.proxy, attr)
        w   == st.warnings \o got.warnings
    IN  IF got.exc = "AttributeError"
        THEN [st EXCEPT !.exc = "AssertionError", !.warnings = w]
        ELSE IF del.exc # ""
        THEN [st EXCEPT !.exc = del.exc, !.warnings = w]
        ELSE [st EXCEPT
                !.proxy = [del.proxy EXCEPT !.type_dict =
                    Put(@, attr,
                        DeprecatedAttribute(ns, attr, got.value, replacement))],
                !.warnings = w]

\* for attr, replacement in _deprecated_attrs.pop(namespace, [])
RECURSIVE InstallDeprecated(_, _, _, _, _)
InstallDeprecated(st, mods, ns, pairs, i) ==
    IF i > Len(pairs) \/ st.exc # "" THEN st
    ELSE InstallDeprecated(
            InstallOne(st, mods, ns, pairs[i][1], pairs[i][2]),
            mods, ns, pairs, i + 1)

\* _deprecated_attrs.pop(namespace, [])
Popped(reg, ns) == IF ns \in DOMAIN reg THEN reg[ns] ELSE << >>

\* A faulty variant: the entry is read and stays in the registry.
RegistryKept(reg, ns) == reg

\* _deprecated_attrs after pop(namespace, [])
RegistryAfterPop(reg, ns) == Del(reg, ns)

\* The else clause of load, run on the proxy pr with the evaluated override
\* module om: the proxy, the registry and the objects' __module__ after it,
\* and what load gives its caller.
ElseClause(pr, proxy, om, ns, reg, dm, mods) ==
    LET copied == CopyExports([proxy |-> pr, dunder_module |-> dm, exc |-> ""],
                              om.vars, om.all, ns, 1)
        done   == InstallDeprecated(
                     [proxy |-> copied.proxy, exc |-> "", warnings |-> << >>],
                     mods, ns, Popped(reg, ns), 1)
    IN  IF copied.exc # ""
        THEN [proxy |-> copied.proxy, registry |-> reg,
              dunder_module |-> copied.dunder_module,
              out |-> Raised(copied.exc, << >>)]
        ELSE [proxy |-> done.proxy, registry |-> RegistryAfterPop(reg, ns),
              dunder_module |-> copied.dunder_module,
              out |-> IF done.exc # ""
                      THEN Raised(done.exc, done.warnings)
                      ELSE Returned(proxy, done.warnings)]

(***************************************************************************)
(* State.                                                                  *)
(***************************************************************************)
\* What a call gave its caller: obj is the proxy or namespace it was made
\* on, name the attribute, listing the result of dir().
Call(op, obj, name, out) ==
    [op |-> op, obj |-> obj, name |-> name, ret |-> out.value,
     exc |-> out.exc, warnings |-> out.warnings, listing |-> << >>]

Idle == [pc |-> "idle", namespace |-> "", proxy |-> "", err |-> ""]

\* The attributes of the introspected module of a namespace.
ModuleAttrs(ns) ==
    Put(Put(Put(EmptyDict, "__name__", ns),
            "A", "introspected:" \o ns \o ".A"),
        "B", "introspected:" \o ns \o ".B")

\* __module__ of a class or function defined in the override unit.
UnitModule(ns) == << "pgi", "overrides", ns >>

\* __module__ of an introspected class of a namespace.
IntrospectedModule(ns) == << "pgi", "repository", ns >>

\* A faulty variant: the object registered under the alias is returned as it
\* is.
GetRegistered(namespace) ==
    IF AliasKey("pgi.repository", namespace) \notin DOMAIN sys_modules
    THEN Raised("KeyError", << >>)
    ELSE Returned(sys_modules[AliasKey("pgi.repository", namespace)], << >>)

\* get_introspection_module(namespace): the object registered under
\* "pgi.repository." + namespace, or what its _introspection_module is when
\* it has one.
get_introspection_module(namespace) ==
    IF AliasKey("pgi.repository", namespace) \notin DOMAIN sys_modules
    THEN Raised("KeyError", << >>)
    ELSE LET mod == sys_modules[AliasKey("pgi.repository", namespace)]
             got == IF mod \in DOMAIN proxies
                    THEN Getattr(proxies[mod], mod_dict,
                                 "_introspection_module")
                    ELSE ModuleGetattr(mod_dict, ModNs(mod),
                                       "_introspection_module")
         IN  IF got.exc = "AttributeError" THEN Returned(mod, got.warnings)
             ELSE got

\* Application code runs between loads; an override unit under evaluation
\* calls the registration helpers and reads; load's own clauses run without
\* interruption.
Running == frame.pc \in {"idle", "import"}

\* The override units that exist: "Gtk" has one, "GLib" has none.
UnitLayout == [ns \in Namespaces |-> ns = "Gtk"]

LoaderInit ==
    /\ unit_exists = UnitLayout
    /\ mod_dict = [ns \in Namespaces |-> ModuleAttrs(ns)]
    /\ sys_modules = EmptyDict
    /\ imported = EmptyDict
    /\ proxies = EmptyDict
    /\ deprecated_attrs = EmptyDict
    /\ dunder_module = EmptyDict
    /\ dunder_name = EmptyDict
    /\ frame = Idle
    /\ loads = 0
    /\ calls = 0
    /\ released = EmptyDict
    /\ last = Call("none", "", "", Returned("", << >>))

\* No initializer made by deprecated_init, no wrapper made by
\* strip_boolean_result: the loader is studied without them.
NoInitCall == [called |-> FALSE]
NoStripCall == [called |-> FALSE]
NoDeprecatedCall == [called |-> FALSE]

Init ==
    /\ LoaderInit
    /\ init_call = NoInitCall
    /\ strip_call = NoStripCall
    /\ dep_call = NoDeprecatedCall

\* load, up to the import of an override unit not evaluated before: a
\* fresh proxy type and proxy, registered under every alias; then the import
\* finds no unit, or starts to evaluate it.
LoadBegin(namespace) ==
    /\ frame.pc = "idle"
    /\ loads < MaxLoads
    /\ namespace \notin DOMAIN imported
    /\ LET proxy == "proxy" \o ToString(Cardinality(DOMAIN proxies) + 1)
       IN  /\ proxies' = WithProxy(proxies, proxy, NewProxy(mod_dict, namespace))
           /\ sys_modules' = RegisterAliases(sys_modules, namespace, proxy)
           /\ frame' =
                [pc |-> IF unit_exists[namespace] THEN "import" ELSE "except",
                 namespace |-> namespace, proxy |-> proxy,
                 err |-> IF unit_exists[namespace] THEN "" ELSE "ImportError"]
    /\ loads' = loads + 1
    /\ last' = Call("none", "", "", Returned("", << >>))
    /\ UNCHANGED adapter_vars
    /\ UNCHANGED << unit_exists, mod_dict, imported, deprecated_attrs,
                    dunder_module, calls, released,
                    dunder_name >>

\* A faulty variant: a load that finds the override unit already evaluated
\* returns a new proxy without copying the exports.
LoadCachedSkipsExports(namespace) ==
    /\ frame.pc = "idle"
    /\ loads < MaxLoads
    /\ namespace \in DOMAIN imported
    /\ LET proxy == "proxy" \o ToString(Cardinality(DOMAIN proxies) + 1)
       IN  /\ proxies' = WithProxy(proxies, proxy,
                                   NewProxy(mod_dict, namespace))
           /\ sys_modules' = RegisterAliases(sys_modules, namespace, proxy)
           /\ last' = Call("load", namespace, "", Returned(proxy, << >>))
    /\ loads' = loads + 1
    /\ UNCHANGED adapter_vars
    /\ UNCHANGED << unit_exists, mod_dict, imported, frame, calls,
                    released, deprecated_attrs, dunder_module, dunder_name >>

\* load of a namespace whose override unit the import system has kept: the
\* import gives the kept module, and the else clause runs.
LoadCached(namespace) ==
    /\ frame.pc = "idle"
    /\ loads < MaxLoads
    /\ namespace \in DOMAIN imported
    /\ LET proxy == "proxy" \o ToString(Cardinality(DOMAIN proxies) + 1)
           res == ElseClause(NewProxy(mod_dict, namespace), proxy,
                             imported[namespace], namespace, deprecated_attrs,
                             dunder_module, mod_dict)
       IN  /\ proxies' = WithProxy(proxies, proxy, res.proxy)
           /\ sys_modules' = RegisterAliases(sys_modules, namespace, proxy)
           /\ deprecated_attrs' = res.registry
           /\ dunder_module' = res.dunder_module
           /\ last' = Call("load", namespace, "", res.out)
    /\ loads' = loads + 1
    /\ UNCHANGED adapter_vars
    /\ UNCHANGED << unit_exists, mod_dict, imported, frame, calls,
                    released,
                    dunder_name >>

\* The override unit raises while it is evaluated.
UnitRaise(err) ==
    /\ frame.pc = "import"
    /\ frame' = [frame EXCEPT !.pc = "except", !.err = err]
    /\ UNCHANGED adapter_vars
    /\ UNCHANGED << unit_exists, mod_dict, sys_modules, imported, proxies,
                    deprecated_attrs, dunder_module, loads, calls,
                    released, last,
                    dunder_name >>

\* load, except clause.  The proxy of a load that fell back to the module
\* is referenced by nothing and is dropped.
LoadExcept ==
    /\ frame.pc = "except"
    /\ LET res == ExceptClause(sys_modules, frame.namespace, frame.err)
       IN  /\ sys_modules' = res.sys_modules
           /\ proxies' = IF res.out.exc = "" THEN Del(proxies, frame.proxy)
                         ELSE proxies
           /\ last' = Call("load", frame.namespace, "", res.out)
    /\ frame' = Idle
    /\ UNCHANGED adapter_vars
    /\ UNCHANGED << unit_exists, mod_dict, imported, deprecated_attrs,
                    dunder_module, loads, calls, released,
                    dunder_name >>

\* The override unit ends its evaluation, having bound the exported names in
\* defined and __all__; the import system keeps the module, and load goes on
\* with its else clause.
UnitReturn(defined, override_all) ==
    /\ frame.pc = "import"
    /\ LET ns == frame.namespace
           om == [vars |-> [n \in defined |-> OvObj(ns, n)],
                  all |-> override_all]
           dm == IF "A" \in defined
                 THEN Put(dunder_module, OvObj(ns, "A"), UnitModule(ns))
                 ELSE dunder_module
           res == ElseClause(proxies[frame.proxy], frame.proxy, om, ns,
                             deprecated_attrs, dm, mod_dict)
       IN  /\ imported' = Put(imported, ns, om)
           /\ proxies' = WithProxy(proxies, frame.proxy, res.proxy)
           /\ deprecated_attrs' = res.registry
           /\ dunder_module' = res.dunder_module
           /\ last' = Call("load", ns, "", res.out)
    /\ frame' = Idle
    /\ UNCHANGED adapter_vars
    /\ UNCHANGED << unit_exists, mod_dict, sys_modules, loads, calls,
                    released,
                    dunder_name >>

\* A descriptor's __set__ or __delete__ is about to run for the attribute.
NoteRelease(rel, proxy, name, by, v) ==
    IF name \in DOMAIN proxies[proxy].type_dict
    THEN Put(rel, << proxy, name >>, [by |-> by, value |-> v])
    ELSE rel

\* getattr(proxy, name)
ProxyGet(proxy, name) ==
    /\ Running
    /\ proxy \in DOMAIN proxies
    /\ last' = Call("get", proxy, name, Getattr(proxies[proxy], mod_dict, name))
    /\ UNCHANGED adapter_vars
    /\ UNCHANGED << unit_exists, mod_dict, sys_modules, imported, proxies,
                    deprecated_attrs, dunder_module, frame, loads, calls,
                    released,
                    dunder_name >>

\* setattr(proxy, name, v)
ProxySet(proxy, name, v) ==
    /\ frame.pc = "idle"
    /\ proxy \in DOMAIN proxies
    /\ proxies' = WithProxy(proxies, proxy, Setattr(proxies[proxy], name, v))
    /\ released' = NoteRelease(released, proxy, name, "set", v)
    /\ last' = Call("none", "", "", Returned("", << >>))
    /\ calls < MaxCalls
    /\ calls' = calls + 1
    /\ UNCHANGED adapter_vars
    /\ UNCHANGED << unit_exists, mod_dict, sys_modules, imported,
                    deprecated_attrs, dunder_module, frame, loads,
                    dunder_name >>

\* delattr(proxy, name)
ProxyDel(proxy, name) ==
    /\ frame.pc = "idle"
    /\ proxy \in DOMAIN proxies
    /\ LET del == Delattr(proxies[proxy], name)
       IN  /\ proxies' = WithProxy(proxies, proxy, del.proxy)
           /\ last' = Call("del", proxy, name,
                           IF del.exc = "" THEN Returned("", << >>)
                           ELSE Raised(del.exc, << >>))
    /\ released' = NoteRelease(released, proxy, name, "delete", "")
    /\ calls < MaxCalls
    /\ calls' = calls + 1
    /\ UNCHANGED adapter_vars
    /\ UNCHANGED << unit_exists, mod_dict, sys_modules, imported,
                    deprecated_attrs, dunder_module, frame, loads,
                    dunder_name >>

\* dir(proxy)
ProxyDirCall(proxy) ==
    /\ Running
    /\ proxy \in DOMAIN proxies
    /\ last' = [Call("dir", proxy, "", Returned("", << >>))
                    EXCEPT !.listing = ProxyDir(proxies[proxy], mod_dict)]
    /\ UNCHANGED adapter_vars
    /\ UNCHANGED << unit_exists, mod_dict, sys_modules, imported, proxies,
                    deprecated_attrs, dunder_module, frame, loads, calls,
                    released,
                    dunder_name >>

\* deprecated_attr(namespace, attr, replacement)
DeprecatedAttr(namespace, attr, replacement) ==
    /\ Running
    /\ calls < MaxCalls
    /\ calls' = calls + 1
    /\ deprecated_attrs' =
         Put(deprecated_attrs, namespace,
             Append(Popped(deprecated_attrs, namespace),
                    << attr, replacement >>))
    /\ last' = Call("none", "", "", Returned("", << >>))
    /\ UNCHANGED adapter_vars
    /\ UNCHANGED << unit_exists, mod_dict, sys_modules, imported, proxies,
                    dunder_module, frame, loads, released,
                    dunder_name >>

\* override(klass) for a class of the override unit of a namespace that
\* derives from the introspected class called name.
Override(namespace, name) ==
    /\ Running
    /\ LET mod_name == AliasKey(PREFIX[Len(PREFIX)], namespace)
           klass == KlassObj(namespace, name)
       IN  IF mod_name \notin DOMAIN sys_modules
           THEN /\ last' = Call("none", namespace, name,
                                Raised("KeyError", << >>))
                /\ UNCHANGED << mod_dict, proxies, dunder_module,
                                dunder_name, released >>
           ELSE LET module == sys_modules[mod_name]
                IN  /\ dunder_name' = Put(dunder_name, klass, name)
                    /\ dunder_module' =
                         Put(dunder_module, klass, IntrospectedModule(namespace))
                    /\ IF module \in DOMAIN proxies
                       THEN /\ proxies' = WithProxy(proxies, module,
                                    Setattr(proxies[module], name, klass))
                            /\ released' = NoteRelease(released, module, name,
                                                        "set", klass)
                            /\ UNCHANGED mod_dict
                       ELSE /\ mod_dict' = [mod_dict EXCEPT ![ModNs(module)] =
                                               Put(@, name, klass)]
                            /\ UNCHANGED << proxies, released >>
                    /\ last' = Call("none", "", "", Returned(klass, << >>))
    /\ calls < MaxCalls
    /\ calls' = calls + 1
    /\ UNCHANGED adapter_vars
    /\ UNCHANGED << unit_exists, sys_modules, imported, deprecated_attrs,
                    frame, loads >>


\* override(function) for the introspected function called name of a
\* namespace, and the decorator it returns applied at once to the function
\* of the override unit, as "@override(function)" does.
OverrideFunction(namespace, name) ==
    /\ Running
    /\ LET mod_name == AliasKey(PREFIX[Len(PREFIX)], namespace)
           func == FuncObj(namespace, name)
       IN  IF mod_name \notin DOMAIN sys_modules
           THEN /\ last' = Call("none", namespace, name,
                                Raised("KeyError", << >>))
                /\ UNCHANGED << mod_dict, proxies, released >>
           ELSE LET module == sys_modules[mod_name]
                IN  /\ IF module \in DOMAIN proxies
                       THEN /\ proxies' = WithProxy(proxies, module,
                                    Setattr(proxies[module], name, func))
                            /\ released' = NoteRelease(released, module, name,
                                                        "set", func)
                            /\ UNCHANGED mod_dict
                       ELSE /\ mod_dict' = [mod_dict EXCEPT ![ModNs(module)] =
                                               Put(@, name, func)]
                            /\ UNCHANGED << proxies, released >>
                    /\ last' = Call("none", "", "", Returned(func, << >>))
    /\ calls < MaxCalls
    /\ calls' = calls + 1
    /\ UNCHANGED adapter_vars
    /\ UNCHANGED << unit_exists, sys_modules, imported, deprecated_attrs,
                    dunder_module, dunder_name, frame, loads >>


\* Sequences of names an override unit may give as __all__.
ExportLists ==
    {s \in UNION {[1..k -> UnitNames] : k \in 0..MaxAll} :
        \A i, j \in 1..Len(s) : s[i] = s[j] => i = j}

\* Names application code reads, and names it writes or deletes.
ReadNames == AttrNames \cup {"_introspection_module"}
WriteNames == UnitNames
OverrideNames == {"A"}
FunctionNames == {"B"}

Next ==
    \/ \E ns \in Namespaces : LoadBegin(ns)
    \/ \E ns \in Namespaces : LoadCached(ns)
    \/ \E e \in UnitErrors : UnitRaise(e)
    \/ \E all \in ExportLists : \E defined \in SUBSET Range(all) :
          UnitReturn(defined, all)
    \/ LoadExcept
    \/ \E p \in DOMAIN proxies, n \in ReadNames : ProxyGet(p, n)
    \/ \E p \in DOMAIN proxies, n \in WriteNames, v \in UserValues :
          ProxySet(p, n, v)
    \/ \E p \in DOMAIN proxies, n \in WriteNames : ProxyDel(p, n)
    \/ \E p \in DOMAIN proxies : ProxyDirCall(p)
    \/ \E ns \in Namespaces, a \in UnitNames, r \in Replacements :
          DeprecatedAttr(ns, a, r)
    \/ \E ns \in Namespaces, n \in OverrideNames : Override(ns, n)
    \/ \E ns \in Namespaces, n \in FunctionNames : OverrideFunction(ns, n)

Spec == Init /\ [][Next]_vars

(***************************************************************************)
(* The loader, the proxy and the descriptor: claims.                       *)
(***************************************************************************)
LoadReturned == last.op = "load" /\ last.exc = ""

\* Every alias of a namespace in sys.modules resolves to obj.
AliasesResolveTo(mods, ns, obj) ==
    \A i \in 1..Len(PREFIX) :
        /\ AliasKey(PREFIX[i], ns) \in DOMAIN mods
        /\ mods[AliasKey(PREFIX[i], ns)] = obj

\* C1: load of a namespace that has no override unit returns the module it
\* was given, and when it has returned every alias of the namespace in
\* sys.modules resolves to that module.
C1_NoOverrideGivesModule ==
    (last.op = "load" /\ ~unit_exists[last.obj]) =>
        /\ last.exc = ""
        /\ last.ret = ModObj(last.obj)
        /\ AliasesResolveTo(sys_modules, last.obj, ModObj(last.obj))

C1_Witness ==
    /\ last.op = "load"
    /\ last.obj = "GLib"
    /\ last.ret = ModObj("GLib")
    /\ AliasesResolveTo(sys_modules, "GLib", ModObj("GLib"))

\* What a lookup gave, without its warnings.
Outcome(r) == << r.exc, r.value >>

\* C2, as claimed: when load has returned the proxy, a lookup of a name of
\* the export list gives the object the override unit bound to it, and a
\* lookup of any other name gives what the introspected module gives, or
\* fails as it fails.
C2_OtherNamesFromModule ==
    (LoadReturned /\ last.ret \in DOMAIN proxies) =>
        LET pr == proxies[last.ret]
            om == imported[last.obj]
        IN  /\ \A n \in Range(om.all) :
                  Outcome(Getattr(pr, mod_dict, n)) = << "", om.vars[n] >>
            /\ \A n \in AttrNames \ Range(om.all) :
                  Outcome(Getattr(pr, mod_dict, n))
                      = Outcome(ModuleGetattr(mod_dict, last.obj, n))

\* C2, amended: a name that is not exported and that the proxy holds itself
\* (set by its constructor, or set on it while the unit was evaluated) gives
\* the proxy's own attribute; every other name that is not exported gives
\* what the introspected module gives, or fails as it fails.
C2_ExportsThenOwnThenModule ==
    (LoadReturned /\ last.ret \in DOMAIN proxies) =>
        LET pr == proxies[last.ret]
            om == imported[last.obj]
            own == DOMAIN pr.dict \cup DOMAIN pr.type_dict
        IN  /\ \A n \in Range(om.all) :
                  Outcome(Getattr(pr, mod_dict, n)) = << "", om.vars[n] >>
            /\ \A n \in (ReadNames \ Range(om.all)) \ own :
                  Outcome(Getattr(pr, mod_dict, n))
                      = Outcome(ModuleGetattr(mod_dict, last.obj, n))
            /\ \A n \in (ReadNames \ Range(om.all)) \cap DOMAIN pr.dict :
                  Outcome(Getattr(pr, mod_dict, n)) = << "", pr.dict[n] >>

C2_Witness ==
    /\ LoadReturned
    /\ last.ret \in DOMAIN proxies
    /\ imported[last.obj].all = << "C" >>
    /\ Getattr(proxies[last.ret], mod_dict, "C").value = OvObj(last.obj, "C")
    /\ Getattr(proxies[last.ret], mod_dict, "A").value
           = mod_dict[last.obj]["A"]
    /\ "A" \notin DOMAIN proxies[last.ret].dict

Deprecated(p, n) == p \in DOMAIN proxies /\ n \in DOMAIN proxies[p].type_dict

\* The value an attribute has on the proxy when load installs its
\* descriptor in this step: what the unit exported under the name, else what
\* the proxy held before.
ValueAtInstall(p, n) ==
    LET ns == ModNs(proxies'[p].dict["_introspection_module"])
    IN  IF n \in Range(imported'[ns].all) THEN imported'[ns].vars[n]
        ELSE proxies[p].dict[n]

\* C4: while the descriptor of an attribute is installed, a read of the
\* attribute returns the value the attribute had when load installed the
\* descriptor, emits one warning, and changes neither descriptor nor proxy.
C4_DeprecatedRead ==
    /\ [] ((last.op = "get" /\ Deprecated(last.obj, last.name)) =>
            /\ last.exc = ""
            /\ last.ret = proxies[last.obj].type_dict[last.name].value
            /\ Len(last.warnings) = 1
            /\ last.warnings[1] =
                 << ModNs(proxies[last.obj].dict["_introspection_module"]),
                    last.name, "new" >>
            /\ "new" \in Replacements)
    /\ [][ /\ \A p \in DOMAIN proxies', n \in UnitNames :
                (n \in DOMAIN proxies'[p].type_dict /\ ~Deprecated(p, n)) =>
                    proxies'[p].type_dict[n].value = ValueAtInstall(p, n)
           /\ \A p \in DOMAIN proxies, n \in UnitNames :
                (Deprecated(p, n) /\ p \in DOMAIN proxies'
                    /\ n \in DOMAIN proxies'[p].type_dict) =>
                    proxies'[p].type_dict[n] = proxies[p].type_dict[n]
           /\ (last'.op = "get" /\ last' # last) => proxies' = proxies
         ]_vars

C4_Witness ==
    /\ last.op = "get"
    /\ Deprecated(last.obj, last.name)
    /\ last.ret = OvObj("Gtk", last.name)
    /\ Len(last.warnings) = 1

\* The descriptor of the attribute left the proxy's type by a write.
ReleasedBySet(p, n) ==
    << p, n >> \in DOMAIN released /\ released[<< p, n >>].by = "set"

ReleasedByDelete(p, n) ==
    << p, n >> \in DOMAIN released /\ released[<< p, n >>].by = "delete"

\* C5, as claimed: once v was written to a deprecated attribute, every later
\* read of the attribute returns v and emits no warning, whatever follows.
C5_ReadsGiveFirstWrite ==
    (last.op = "get" /\ ReleasedBySet(last.obj, last.name)) =>
        /\ last.ret = released[<< last.obj, last.name >>].value
        /\ last.warnings = << >>

\* C5, amended: the write removes the descriptor from the type and stores v
\* in the proxy instance; from then on no read of the attribute emits a
\* warning, and a read returns the instance attribute (v until the attribute
\* is written again), or, once it was deleted, what the module gives.
C5_WriteReleasesDescriptor ==
    /\ [] ((last.op = "get" /\ ReleasedBySet(last.obj, last.name)) =>
            /\ last.warnings = << >>
            /\ ~Deprecated(last.obj, last.name)
            /\ << last.exc, last.ret >> =
                 IF last.name \in DOMAIN proxies[last.obj].dict
                 THEN << "", proxies[last.obj].dict[last.name] >>
                 ELSE Outcome(ModuleGetattr(mod_dict,
                        ModNs(proxies[last.obj].dict["_introspection_module"]),
                        last.name)))
    /\ [][ \A p \in DOMAIN proxies, n \in UnitNames :
             (Deprecated(p, n) /\ ReleasedBySet(p, n)') =>
                /\ n \notin DOMAIN proxies'[p].type_dict
                /\ n \in DOMAIN proxies'[p].dict
                /\ proxies'[p].dict[n] = released'[<< p, n >>].value
         ]_vars

C5_Witness ==
    /\ last.op = "get"
    /\ ReleasedBySet(last.obj, last.name)
    /\ last.ret = "u1"
    /\ released[<< last.obj, last.name >>].value = "u1"

\* C6: when a deprecated attribute was deleted from the proxy, its
\* descriptor is gone from the type and the proxy holds no attribute of the
\* name: a read gives what the introspected module gives, or fails as it
\* fails, and emits no warning.
C6_DeleteRemovesOverride ==
    (last.op = "del" /\ last.exc = "" /\ ReleasedByDelete(last.obj, last.name)) =>
        LET pr == proxies[last.obj]
            ns == ModNs(pr.dict["_introspection_module"])
        IN  /\ last.name \notin DOMAIN pr.type_dict
            /\ last.name \notin DOMAIN pr.dict
            /\ Getattr(pr, mod_dict, last.name)
                   = ModuleGetattr(mod_dict, ns, last.name)
            /\ Getattr(pr, mod_dict, last.name).warnings = << >>

C6_Witness ==
    /\ last.op = "del"
    /\ last.exc = ""
    /\ last.name = "C"
    /\ ReleasedByDelete(last.obj, "C")
    /\ calls = 2
    /\ Getattr(proxies[last.obj], mod_dict, "C").exc = "AttributeError"

\* C7: the directory listing of a proxy is sorted, holds no name twice, and
\* holds every name of the introspected module's directory and every name
\* the proxy or its type holds.
C7_DirSortedUnion ==
    (last.op = "dir") =>
        LET d  == last.listing
            pr == proxies[last.obj]
            ns == ModNs(pr.dict["_introspection_module"])
        IN  /\ \A i, j \in 1..Len(d) : i < j => Ord(d[i]) < Ord(d[j])
            /\ ModuleDir(mod_dict, ns) \subseteq Range(d)
            /\ DOMAIN pr.dict \cup DOMAIN pr.type_dict \subseteq Range(d)

C7_Witness ==
    /\ last.op = "dir"
    /\ "A" \in DOMAIN proxies[last.obj].type_dict
    /\ "C" \in DOMAIN proxies[last.obj].dict
    /\ last.listing =
         << "A", "B", "C", "__dir__", "__getattr__", "__init__", "__name__",
            "__repr__", "_introspection_module" >>

(***************************************************************************)
(* deprecated_init: the initializer it makes.                              *)
(*                                                                         *)
(* A dictionary given to deprecated_init is the sequence of its items, in  *)
(* the order the dictionary iterates them; a warning is a record of its    *)
(* kind, the names its text lists and the other texts listed with them.    *)
(***************************************************************************)
\* positional arguments given to one call of the initializer
MaxArgs == 2

\* dict(zip(arg_names, args)): zip stops at the shorter of the two
RECURSIVE ZipDict(_, _, _, _)
ZipDict(d, arg_names, args, i) ==
    IF i > Len(arg_names) \/ i > Len(args) THEN d
    ELSE ZipDict(Put(d, arg_names[i], args[i]), arg_names, args, i + 1)

\* The warning for positional arguments: arg_names[:len(args)].
PositionalWarning(arg_names, args) ==
    IF args # << >>
    THEN << [kind |-> "positional",
             names |-> SubSeq(arg_names, 1, Min(Len(args), Len(arg_names))),
             detail |-> << >>] >>
    ELSE << >>

\* The value the items of a dictionary give a key.
Item(items, key) ==
    LET i == CHOOSE j \in 1..Len(items) : items[j][1] = key
    IN  items[i][2]

\* The loop over deprecated_aliases.items(): the value under an alias moves
\* to its key.
RECURSIVE MoveAliases(_, _, _)
MoveAliases(st, deprecated_aliases, i) ==
    IF i > Len(deprecated_aliases) THEN st
    ELSE LET key == deprecated_aliases[i][1]
             alias == deprecated_aliases[i][2]
         IN  IF alias \in DOMAIN st.new_kwargs
             THEN MoveAliases(
                    [new_kwargs |-> Put(Del(st.new_kwargs, alias), key,
                                        st.new_kwargs[alias]),
                     used |-> Append(st.used, key)],
                    deprecated_aliases, i + 1)
             ELSE MoveAliases(st, deprecated_aliases, i + 1)

\* The aliases of the keys in sorted order.
RECURSIVE ItemsOf(_, _)
ItemsOf(items, keys) ==
    IF keys = << >> THEN << >>
    ELSE << Item(items, Head(keys)) >> \o ItemsOf(items, Tail(keys))

\* A faulty variant: the alias warning is given whether an alias was used
\* or not.
AliasWarningAlways(deprecated_aliases, aliases_used) ==
    << [kind |-> "alias",
        names |-> sorted(Range(aliases_used)),
        detail |-> ItemsOf(deprecated_aliases,
                           sorted(Range(aliases_used)))] >>

\* The warning for aliases, when one was used.
AliasWarning(deprecated_aliases, aliases_used) ==
    IF aliases_used # << >>
    THEN << [kind |-> "alias",
             names |-> sorted(Range(aliases_used)),
             detail |-> ItemsOf(deprecated_aliases,
                                sorted(Range(aliases_used)))] >>
    ELSE << >>

\* The loop over deprecated_defaults.items(): a key not passed gets its
\* default.
RECURSIVE InjectDefaults(_, _, _)
InjectDefaults(st, deprecated_defaults, i) ==
    IF i > Len(deprecated_defaults) THEN st
    ELSE LET key == deprecated_defaults[i][1]
         IN  IF key \notin DOMAIN st.new_kwargs
             THEN InjectDefaults(
                    [new_kwargs |-> Put(st.new_kwargs, key,
                                        Item(deprecated_defaults, key)),
                     used |-> Append(st.used, key)],
                    deprecated_defaults, i + 1)
             ELSE InjectDefaults(st, deprecated_defaults, i + 1)

\* The warning for defaults, when one was used.
DefaultWarning(deprecated_defaults, defaults_used) ==
    IF defaults_used # << >>
    THEN << [kind |-> "default",
             names |-> sorted(Range(defaults_used)),
             detail |-> ItemsOf(deprecated_defaults,
                                sorted(Range(defaults_used)))] >>
    ELSE << >>

\* The loop over ignore.
RECURSIVE RemoveIgnored(_, _, _)
RemoveIgnored(new_kwargs, ignore, i) ==
    IF i > Len(ignore) THEN new_kwargs
    ELSE RemoveIgnored(IF ignore[i] \in DOMAIN new_kwargs
                       THEN Del(new_kwargs, ignore[i])
                       ELSE new_kwargs,
                       ignore, i + 1)

\* A faulty variant: a key already there keeps its value.
UpdateKeepsOld(d, e) ==
    [k \in DOMAIN d \cup DOMAIN e |-> IF k \in DOMAIN d THEN d[k] ELSE e[k]]

\* new_kwargs.update(kwargs)
Update(d, e) ==
    [k \in DOMAIN d \cup DOMAIN e |-> IF k \in DOMAIN e THEN e[k] ELSE d[k]]

\* new_init(self, *args, **kwargs): the keywords super_init_func is called
\* with and the warnings given, in the order they are given.
new_init(cfg, args, kwargs) ==
    LET positional == IF args # << >>
                      THEN ZipDict(EmptyDict, cfg.arg_names, args, 1)
                      ELSE EmptyDict
        merged == Update(positional, kwargs)
        al == MoveAliases([new_kwargs |-> merged, used |-> << >>],
                          cfg.deprecated_aliases, 1)
        df == InjectDefaults([new_kwargs |-> al.new_kwargs, used |-> << >>],
                             cfg.deprecated_defaults, 1)
    IN  [super_kwargs |-> RemoveIgnored(df.new_kwargs, cfg.ignore, 1),
         warnings |-> PositionalWarning(cfg.arg_names, args)
                      \o AliasWarning(cfg.deprecated_aliases, al.used)
                      \o DefaultWarning(cfg.deprecated_defaults, df.used)]

\* The arguments deprecated_init is given: the ordered argument names, the
\* ignored names, the aliases (key, alias) and the defaults (key, value).
ArgNameLists == {<< "a", "b" >>, << "a" >>}
IgnoreLists == {<< >>, << "b" >>, << "y" >>}
AliasDicts ==
    {<< >>, << << "x", "old_x" >> >>,
     << << "x", "old_x" >>, << "y", "old_y" >> >>}
DefaultDicts == {<< >>, << << "y", 1 >> >>}

InitConfigs ==
    [arg_names : ArgNameLists, ignore : IgnoreLists,
     deprecated_aliases : AliasDicts, deprecated_defaults : DefaultDicts]

\* The positional arguments and the keywords of a call.
ArgValues == {10, 20}
ArgLists == UNION {[1..n -> ArgValues] : n \in 0..MaxArgs}
KeywordValue ==
    ("a" :> 30) @@ ("x" :> 6) @@ ("old_x" :> 5) @@ ("y" :> 7)
    @@ ("old_y" :> 8)
KeywordDicts ==
    {[k \in S |-> KeywordValue[k]] : S \in SUBSET DOMAIN KeywordValue}

\* After deprecated_init(super_init_func, arg_names, ...) returned new_init.
InitInit ==
    /\ LoaderInit
    /\ strip_call = NoStripCall
    /\ dep_call = NoDeprecatedCall
    /\ \E cfg \in InitConfigs :
          init_call = [called |-> FALSE, cfg |-> cfg, args |-> << >>,
                       kwargs |-> EmptyDict, super_calls |-> << >>,
                       warnings |-> << >>]

\* One call new_init(self, *args, **kwargs): super_calls are the keywords of
\* the calls of super_init_func it made.
CallNewInit(args, kwargs) ==
    /\ LET r == new_init(init_call.cfg, args, kwargs)
       IN  init_call' = [called |-> TRUE, cfg |-> init_call.cfg,
                         args |-> args, kwargs |-> kwargs,
                         super_calls |-> << r.super_kwargs >>,
                         warnings |-> r.warnings]
    /\ UNCHANGED << loader_vars, strip_call, dep_call >>

InitNext == \E args \in ArgLists, kwargs \in KeywordDicts :
               CallNewInit(args, kwargs)

InitSpec == InitInit /\ [][InitNext]_vars

(***************************************************************************)
(* deprecated_init: claims.  The keywords expected are stated key by key.  *)
(***************************************************************************)
\* The positions at which a positional argument is given for name k.
Pos(k) ==
    {i \in 1..Min(Len(init_call.args), Len(init_call.cfg.arg_names)) :
        init_call.cfg.arg_names[i] = k}

\* k is among the positional arguments overlaid with the explicit keywords
Merged(k) == k \in DOMAIN init_call.kwargs \/ Pos(k) # {}

MergedValue(k) ==
    IF k \in DOMAIN init_call.kwargs THEN init_call.kwargs[k]
    ELSE init_call.args[CHOOSE i \in Pos(k) : TRUE]

\* The aliases of key k that are present.
PresentAliases(k) ==
    {p \in Range(init_call.cfg.deprecated_aliases) :
        p[1] = k /\ Merged(p[2])}

IsAlias(k) == \E p \in Range(init_call.cfg.deprecated_aliases) : p[2] = k

\* k is a keyword once the aliases have moved to their keys
Canonical(k) == PresentAliases(k) # {} \/ (Merged(k) /\ ~IsAlias(k))

CanonicalValue(k) ==
    IF PresentAliases(k) # {}
    THEN MergedValue((CHOOSE p \in PresentAliases(k) : TRUE)[2])
    ELSE MergedValue(k)

\* The defaults that are injected.
Injected ==
    {p \in Range(init_call.cfg.deprecated_defaults) : ~Canonical(p[1])}

ExpectedKeys ==
    {k \in DOMAIN KeywordValue \cup {"a", "b"} :
        /\ Canonical(k) \/ \E p \in Injected : p[1] = k
        /\ k \notin Range(init_call.cfg.ignore)}

ExpectedKwargs ==
    [k \in ExpectedKeys |->
        IF Canonical(k) THEN CanonicalValue(k)
        ELSE (CHOOSE p \in Injected : p[1] = k)[2]]

ExampleConfig ==
    [arg_names |-> << "a", "b" >>, ignore |-> << >>,
     deprecated_aliases |-> << << "x", "old_x" >> >>,
     deprecated_defaults |-> << << "y", 1 >> >>]

ExampleCall ==
    /\ init_call.called
    /\ init_call.cfg = ExampleConfig
    /\ init_call.args = << 10, 20 >>
    /\ init_call.kwargs = ("old_x" :> 5)

\* C8: every call of the initializer calls the canonical initializer once,
\* with the keywords got by mapping the positional arguments onto the
\* argument names, overlaying the explicit keywords, moving each alias
\* present to its key, injecting each default whose key is absent and
\* removing the ignored names; the example call hands over
\* {a: 10, b: 20, x: 5, y: 1}; no ignored name is handed over.
C8_CanonicalKeywords ==
    init_call.called =>
        /\ init_call.super_calls = << ExpectedKwargs >>
        /\ \A k \in Range(init_call.cfg.ignore) :
              k \notin DOMAIN init_call.super_calls[1]
        /\ ExampleCall =>
              init_call.super_calls =
                 << ("a" :> 10) @@ ("b" :> 20) @@ ("x" :> 5) @@ ("y" :> 1) >>

C8_Witness ==
    /\ ExampleCall
    /\ init_call.super_calls =
          << ("a" :> 10) @@ ("b" :> 20) @@ ("x" :> 5) @@ ("y" :> 1) >>

\* The warnings of a kind the last call gave.
WarningsOf(kind) ==
    {i \in 1..Len(init_call.warnings) : init_call.warnings[i].kind = kind}

\* C9: a call gives the positional warning once iff a positional argument
\* was passed, and it names the argument names of the positional arguments
\* in order; the alias warning once iff an alias was among the merged
\* keywords; the default warning once iff a default was injected; no other
\* warning; and none at all for a call with keywords only, no alias and
\* every default key passed.
C9_WarningsWhenTriggered ==
    init_call.called =>
        /\ Cardinality(WarningsOf("positional")) =
              IF init_call.args # << >> THEN 1 ELSE 0
        /\ \A i \in WarningsOf("positional") :
              /\ Len(init_call.warnings[i].names) =
                    Min(Len(init_call.args), Len(init_call.cfg.arg_names))
              /\ \A j \in 1..Len(init_call.warnings[i].names) :
                    init_call.warnings[i].names[j] =
                       init_call.cfg.arg_names[j]
        /\ Cardinality(WarningsOf("alias")) =
              IF \E p \in Range(init_call.cfg.deprecated_aliases) :
                    Merged(p[2])
              THEN 1 ELSE 0
        /\ Cardinality(WarningsOf("default")) =
              IF Injected # {} THEN 1 ELSE 0
        /\ Len(init_call.warnings) =
              Cardinality(WarningsOf("positional"))
              + Cardinality(WarningsOf("alias"))
              + Cardinality(WarningsOf("default"))
        /\ ( /\ init_call.args = << >>
             /\ \A p \in Range(init_call.cfg.deprecated_aliases) :
                   p[2] \notin DOMAIN init_call.kwargs
             /\ \A p \in Range(init_call.cfg.deprecated_defaults) :
                   p[1] \in DOMAIN init_call.kwargs )
           => init_call.warnings = << >>

\* A call that gives all three warnings.
C9_Witness ==
    /\ init_call.called
    /\ init_call.cfg = ExampleConfig
    /\ init_call.args = << 10 >>
    /\ init_call.kwargs = ("old_x" :> 5)
    /\ Len(init_call.warnings) = 3
    /\ init_call.warnings[1].names = << "a" >>

(***************************************************************************)
(* strip_boolean_result: the wrapper it makes.                             *)
(*                                                                         *)
(* The method's result is a sequence of integers, True and False being 1   *)
(* and 0; None and a missing string are "None" and "".  What the wrapper   *)
(* gives its caller is a record: the exception raised ("" is none) and its *)
(* message, or the value returned, bare or a tuple, as its items.          *)
(***************************************************************************)
\* length of the sequence the wrapped method returns
MaxRet == 3

\* bool(v) of an integer
Truthy(v) == v # 0

ReturnBare(v) ==
    [exc |-> "", message |-> "", shape |-> "bare", items |-> << v >>]
ReturnTuple(t) ==
    [exc |-> "", message |-> "", shape |-> "tuple", items |-> t]
Raise(exc_type, message) ==
    [exc |-> exc_type, message |-> message, shape |-> "", items |-> << >>]

\* A faulty variant: the values after the flag are always a tuple.
StripSliced(ret) == ReturnTuple(Tail(ret))

\* The branch of a truthy flag: ret[1] when len(ret) == 2, else ret[1:].
Strip(ret) ==
    IF Len(ret) = 2 THEN ReturnBare(ret[2]) ELSE ReturnTuple(Tail(ret))

\* A faulty variant: a failure is never raised.
FailSilent(cfg) == ReturnBare(cfg.fail_ret)

\* The branch of a falsy flag.
Fail(cfg) ==
    IF cfg.exc_type # "None"
    THEN Raise(cfg.exc_type,
               IF cfg.exc_str \notin {"None", ""} THEN cfg.exc_str
               ELSE "call failed")
    ELSE ReturnBare(cfg.fail_ret)

\* wrapped(*args, **kwargs), the method having returned ret.
wrapped(cfg, ret) == IF Truthy(ret[1]) THEN Strip(ret) ELSE Fail(cfg)

\* The arguments strip_boolean_result is given besides the method.
StripConfigs ==
    [exc_type : {"None", "ValueError"}, exc_str : {"None", "", "no result"},
     fail_ret : {"None", "failed"}]

\* What the wrapped method may return, and what the wrapper is called with.
RetValues == {0, 1, 7, 8}
Rets == UNION {[1..n -> RetValues] : n \in 1..MaxRet}
CallInputs ==
    {[args |-> << >>, kwargs |-> EmptyDict],
     [args |-> << "p", "q" >>, kwargs |-> ("k" :> "v")]}

\* After strip_boolean_result(method, ...) returned wrapped.
StripInit ==
    /\ LoaderInit
    /\ init_call = NoInitCall
    /\ dep_call = NoDeprecatedCall
    /\ \E cfg \in StripConfigs :
          strip_call = [called |-> FALSE, cfg |-> cfg, args |-> << >>,
                        kwargs |-> EmptyDict, ret |-> << >>,
                        method_calls |-> << >>,
                        out |-> ReturnBare("None")]

\* One call wrapped(*args, **kwargs) in which the method returns ret:
\* method_calls are the calls of the method it made.
CallWrapped(in, ret) ==
    /\ strip_call' = [called |-> TRUE, cfg |-> strip_call.cfg,
                      args |-> in.args, kwargs |-> in.kwargs, ret |-> ret,
                      method_calls |-> << [args |-> in.args,
                                           kwargs |-> in.kwargs] >>,
                      out |-> wrapped(strip_call.cfg, ret)]
    /\ UNCHANGED << loader_vars, init_call, dep_call >>

StripNext == \E in \in CallInputs, ret \in Rets : CallWrapped(in, ret)

StripSpec == StripInit /\ [][StripNext]_vars

(***************************************************************************)
(* strip_boolean_result: claims.                                           *)
(***************************************************************************)
\* C10: when the method's result starts with a truthy flag, the wrapper
\* returns the one value after the flag bare, or the several values after
\* it as a tuple in their order ((True, 7) gives 7, (True, 7, 8) gives
\* (7, 8)); the method is called once, with the caller's arguments.
C10_SuccessStripsFlag ==
    (strip_call.called /\ Truthy(strip_call.ret[1])) =>
        /\ strip_call.out.exc = ""
        /\ Len(strip_call.ret) = 2 =>
              /\ strip_call.out.shape = "bare"
              /\ strip_call.out.items = << strip_call.ret[2] >>
        /\ Len(strip_call.ret) > 2 =>
              /\ strip_call.out.shape = "tuple"
              /\ Len(strip_call.out.items) = Len(strip_call.ret) - 1
              /\ \A i \in 1..Len(strip_call.out.items) :
                    strip_call.out.items[i] = strip_call.ret[i + 1]
        /\ strip_call.ret = << 1, 7 >> => strip_call.out = ReturnBare(7)
        /\ strip_call.ret = << 1, 7, 8 >> =>
              strip_call.out = ReturnTuple(<< 7, 8 >>)
        /\ strip_call.method_calls =
              << [args |-> strip_call.args, kwargs |-> strip_call.kwargs] >>

C10_Witness ==
    /\ strip_call.called
    /\ strip_call.ret = << 1, 7, 8 >>
    /\ strip_call.args = << "p", "q" >>
    /\ strip_call.out = ReturnTuple(<< 7, 8 >>)

\* C11: when the method's result starts with a falsy flag, the wrapper
\* raises exc_type when one was given, with exc_str as its message or
\* 'call failed' when there is no message (None or empty), and returns
\* nothing; without exc_type it returns fail_ret (None by default); none of
\* the method's output values is returned.
C11_FailureRaisesOrFailRet ==
    (strip_call.called /\ ~Truthy(strip_call.ret[1])) =>
        IF strip_call.cfg.exc_type # "None"
        THEN /\ strip_call.out.exc = strip_call.cfg.exc_type
             /\ strip_call.out.message =
                   IF strip_call.cfg.exc_str \in {"None", ""}
                   THEN "call failed" ELSE strip_call.cfg.exc_str
             /\ strip_call.out.shape = ""
             /\ strip_call.out.items = << >>
        ELSE /\ strip_call.out.exc = ""
             /\ strip_call.out.shape = "bare"
             /\ strip_call.out.items = << strip_call.cfg.fail_ret >>

C11_Witness ==
    /\ strip_call.called
    /\ strip_call.ret = << 0, 7, 8 >>
    /\ strip_call.cfg.exc_type = "ValueError"
    /\ strip_call.cfg.exc_str = "None"
    /\ strip_call.out = Raise("ValueError", "call failed")

(***************************************************************************)
(* The loader: further claims.                                             *)
(***************************************************************************)
\* C12: once load has registered a namespace (while its override unit is
\* evaluated, after load returned the proxy, after load fell back to the
\* module) get_introspection_module gives the module that was passed to
\* load, never the proxy.
C12_IntrospectionModuleIsModule ==
    \A ns \in Namespaces :
        AliasKey(PREFIX[1], ns) \in DOMAIN sys_modules =>
            get_introspection_module(ns) = Returned(ModObj(ns), << >>)

C12_Witness ==
    /\ frame.pc = "import"
    /\ sys_modules[AliasKey("pgi.repository", frame.namespace)] = frame.proxy
    /\ frame.proxy \in DOMAIN proxies
    /\ get_introspection_module(frame.namespace)
          = Returned(ModObj(frame.namespace), << >>)
    /\ get_introspection_module("GLib") = Returned(ModObj("GLib"), << >>)

\* C13: while the override unit of a namespace is evaluated every alias of
\* the namespace resolves to the proxy of the load in progress, and an
\* override call made then publishes on that proxy: a class under the name
\* of the class it derives from, renamed to that name and given that
\* class's __module__; a function, through the decorator, under the name of
\* the function passed to override.  The module is not touched.
C13_OverridePublishesOnLoadingProxy ==
    /\ [](frame.pc = "import" =>
             AliasesResolveTo(sys_modules, frame.namespace, frame.proxy))
    /\ [][ frame.pc = "import" =>
            /\ \A n \in OverrideNames :
                  Override(frame.namespace, n) =>
                     /\ Getattr(proxies'[frame.proxy], mod_dict', n)
                           = Returned(KlassObj(frame.namespace, n), << >>)
                     /\ n \in DOMAIN proxies'[frame.proxy].dict
                     /\ dunder_name'[KlassObj(frame.namespace, n)] = n
                     /\ dunder_module'[KlassObj(frame.namespace, n)]
                           = IntrospectedModule(frame.namespace)
                     /\ mod_dict' = mod_dict
            /\ \A n \in FunctionNames :
                  OverrideFunction(frame.namespace, n) =>
                     /\ Getattr(proxies'[frame.proxy], mod_dict', n)
                           = Returned(FuncObj(frame.namespace, n), << >>)
                     /\ n \in DOMAIN proxies'[frame.proxy].dict
                     /\ mod_dict' = mod_dict
         ]_vars

C13_Witness ==
    /\ frame.pc = "import"
    /\ "A" \in DOMAIN proxies[frame.proxy].dict
    /\ proxies[frame.proxy].dict["A"] = KlassObj(frame.namespace, "A")
    /\ KlassObj(frame.namespace, "A") \in DOMAIN dunder_name
    /\ dunder_name[KlassObj(frame.namespace, "A")] = "A"
    /\ "B" \in DOMAIN proxies[frame.proxy].dict
    /\ proxies[frame.proxy].dict["B"] = FuncObj(frame.namespace, "B")

(***************************************************************************)
(* deprecated: the wrapper it makes.                                       *)
(*                                                                         *)
(* An object passed to deprecated is a record of its kind ("function" for  *)
(* a types.FunctionType) and its name.  A call is told by its events, in   *)
(* order: the warnings given and the calls of the function made.           *)
(***************************************************************************)
\* positional arguments given to one call of what deprecated returned
MaxWrapArgs == 2

\* The wrapper made for a function.
Wrapper(function, instead) ==
    [kind |-> "wrap", function |-> function, instead |-> instead]

\* A faulty variant: whatever is passed gets the wrapper.
DeprecatedWrapsAll(function, instead) == Wrapper(function, instead)

\* deprecated(function, instead): what it returns.
deprecated(function, instead) ==
    IF function.kind # "function" THEN function
    ELSE Wrapper(function, instead)

\* The call of warnings.warn in wrap.
DeprecatedWarning(instead) ==
    [ev |-> "warn", message |-> << "Deprecated, use", instead, "instead" >>,
     category |-> "PyGIDeprecationWarning", args |-> << >>,
     kwargs |-> EmptyDict]

\* The call of an object with arguments.
ObjectCall(obj, args, kwargs) ==
    [ev |-> "call", message |-> << obj.name >>, category |-> "",
     args |-> args, kwargs |-> kwargs]

\* wrap(*args, **kwargs), the function giving result (what it returns or
\* raises): the events of the call and what it gives its caller.
wrap(w, args, kwargs, result) ==
    [events |-> << DeprecatedWarning(w.instead),
                   ObjectCall(w.function, args, kwargs) >>,
     out |-> result]

\* The objects passed to deprecated and the replacement texts.
DeprecatedTargets ==
    {[kind |-> "function", name |-> "old_func"],
     [kind |-> "class", name |-> "OldClass"]}
InsteadTexts == {"new_func", "Gtk.new"}

\* The arguments of a call, and what the function called may give.
WrapArgLists == UNION {[1..n -> {"p", "q"}] : n \in 0..MaxWrapArgs}
WrapKwargs == {EmptyDict, ("k" :> "v")}
FunctionResults ==
    {Returned("r1", << >>), Returned("r2", << >>),
     Raised("ValueError", << >>)}

\* After deprecated(function, instead) returned.
DeprecatedInit ==
    /\ LoaderInit
    /\ init_call = NoInitCall
    /\ strip_call = NoStripCall
    /\ \E f \in DeprecatedTargets, instead \in InsteadTexts :
          dep_call = [called |-> FALSE, function |-> f, instead |-> instead,
                      returned |-> deprecated(f, instead),
                      args |-> << >>, kwargs |-> EmptyDict,
                      result |-> Returned("", << >>),
                      events |-> << >>, out |-> Returned("", << >>)]

\* A call of the wrapper deprecated returned.
CallWrap(args, kwargs, result) ==
    /\ dep_call.returned.kind = "wrap"
    /\ LET r == wrap(dep_call.returned, args, kwargs, result)
       IN  dep_call' = [dep_call EXCEPT !.called = TRUE, !.args = args,
                                        !.kwargs = kwargs, !.result = result,
                                        !.events = r.events, !.out = r.out]
    /\ UNCHANGED << loader_vars, init_call, strip_call >>

\* A call of the object deprecated returned unwrapped.
CallUnwrapped(args, kwargs, result) ==
    /\ dep_call.returned.kind # "wrap"
    /\ dep_call' = [dep_call EXCEPT !.called = TRUE, !.args = args,
                                    !.kwargs = kwargs, !.result = result,
                                    !.events = << ObjectCall(dep_call.returned,
                                                             args, kwargs) >>,
                                    !.out = result]
    /\ UNCHANGED << loader_vars, init_call, strip_call >>

DeprecatedNext ==
    \/ \E args \in WrapArgLists, kwargs \in WrapKwargs,
          result \in FunctionResults : CallWrap(args, kwargs, result)
    \/ \E args \in WrapArgLists, kwargs \in WrapKwargs,
          result \in FunctionResults : CallUnwrapped(args, kwargs, result)

DeprecatedSpec == DeprecatedInit /\ [][DeprecatedNext]_vars

(***************************************************************************)
(* deprecated: claims.                                                     *)
(***************************************************************************)
\* C14: for a plain function deprecated returns a wrapper, and every call
\* of it gives one warning naming the replacement, then calls the function
\* once with the same arguments, and gives the function's result; anything
\* else is returned itself, and calling it gives no warning.
C14_DeprecatedWraps ==
    /\ dep_call.function.kind = "function" =>
          /\ dep_call.returned = Wrapper(dep_call.function, dep_call.instead)
          /\ dep_call.called =>
                /\ Len(dep_call.events) = 2
                /\ dep_call.events[1].ev = "warn"
                /\ dep_call.events[1].category = "PyGIDeprecationWarning"
                /\ dep_call.events[1].message[2] = dep_call.instead
                /\ dep_call.events[2] =
                      [ev |-> "call", message |-> << dep_call.function.name >>,
                       category |-> "", args |-> dep_call.args,
                       kwargs |-> dep_call.kwargs]
                /\ dep_call.out = dep_call.result
    /\ dep_call.function.kind # "function" =>
          /\ dep_call.returned = dep_call.function
          /\ \A i \in 1..Len(dep_call.events) :
                dep_call.events[i].ev # "warn"

C14_Witness ==
    /\ dep_call.called
    /\ dep_call.function.kind = "function"
    /\ dep_call.args = << "p", "q" >>
    /\ dep_call.kwargs = ("k" :> "v")
    /\ dep_call.out = Returned("r1", << >>)
    /\ Len(dep_call.events) = 2

(***************************************************************************)
(* The loader: claims about the registry and about failed loads.           *)
(***************************************************************************)
\* The step with which a load call ends: last' tells what it gave.
LoadEnds ==
    /\ frame'.pc = "idle"
    /\ frame.pc # "idle" \/ loads' # loads

\* The registry entries of the namespaces other than ns are as before.
OtherEntriesUnchanged(ns) ==
    \A o \in Namespaces \ {ns} :
        /\ (o \in DOMAIN deprecated_attrs') = (o \in DOMAIN deprecated_attrs)
        /\ o \in DOMAIN deprecated_attrs =>
              deprecated_attrs'[o] = deprecated_attrs[o]

\* C15 as stated: after a load call has returned, with the proxy or with
\* the module, the registry holds no entry for its namespace.
C15_RegistryDrainedAfterLoad ==
    (last.op = "load" /\ last.exc = "") =>
        last.obj \notin DOMAIN deprecated_attrs

\* C15, amended: a load that returns the proxy leaves no entry for its
\* namespace in the registry and the entries of the other namespaces as
\* they were; a load that returns the module leaves the whole registry as
\* it was.
C15_RegistryDrainedWithProxy ==
    [][ (LoadEnds /\ last'.exc = "") =>
           IF last'.ret \in DOMAIN proxies'
           THEN /\ last'.obj \notin DOMAIN deprecated_attrs'
                /\ OtherEntriesUnchanged(last'.obj)
           ELSE /\ last'.ret = ModObj(last'.obj)
                /\ deprecated_attrs' = deprecated_attrs
      ]_vars

\* A load returned the proxy, draining an entry registered while the unit
\* was evaluated and leaving the entry of the other namespace.
C15_Witness ==
    /\ last.op = "load"
    /\ last.exc = ""
    /\ last.ret \in DOMAIN proxies
    /\ "A" \in DOMAIN proxies[last.ret].type_dict
    /\ last.obj \notin DOMAIN deprecated_attrs
    /\ "GLib" \in DOMAIN deprecated_attrs

\* The load that ends evaluated the override unit of its namespace, and the
\* unit exports a name it does not define.
ExportUndefined ==
    \E i \in 1..Len(imported'[last'.obj].all) :
        imported'[last'.obj].all[i] \notin DOMAIN imported'[last'.obj].vars

\* An attribute registered as deprecated for the namespace is not among the
\* names the unit exports.
DeprecatedNotExported ==
    \E i \in 1..Len(Popped(deprecated_attrs, last'.obj)) :
        Popped(deprecated_attrs, last'.obj)[i][1]
            \notin Range(imported'[last'.obj].all)

\* C16: a load whose override unit exports a name it does not define, or
\* for whose namespace an attribute is registered as deprecated that the
\* unit does not export, fails with an AssertionError and returns no
\* proxy.
C16_ConsistencyErrorsAssert ==
    [][ (LoadEnds /\ last'.obj \in DOMAIN imported'
            /\ (ExportUndefined \/ DeprecatedNotExported)) =>
           /\ last'.exc = "AssertionError"
           /\ last'.ret \notin DOMAIN proxies'
      ]_vars

\* C17: a descriptor is seen through the proxy of its load only.  A read
\* on a proxy warns for that proxy's own descriptor or not at all, and
\* without a descriptor of its own it gives what the proxy's own attributes
\* and the module give; a write or a delete on a proxy, and a load, leave
\* every other proxy, its descriptors included, as it was.
C17_DescriptorsStayOnTheirProxy ==
    [][ /\ \A p \in DOMAIN proxies, n \in ReadNames :
              ProxyGet(p, n) =>
                 /\ last'.warnings =
                       IF n \in DOMAIN proxies[p].type_dict
                       THEN << proxies[p].type_dict[n].warning >>
                       ELSE << >>
                 /\ n \notin DOMAIN proxies[p].type_dict =>
                       << last'.exc, last'.ret >> =
                          Outcome(Getattr([proxies[p] EXCEPT
                                              !.type_dict = EmptyDict],
                                          mod_dict, n))
        /\ \A p \in DOMAIN proxies, n \in WriteNames :
              ((\E v \in UserValues : ProxySet(p, n, v)) \/ ProxyDel(p, n)) =>
                 \A q \in DOMAIN proxies \ {p} : proxies'[q] = proxies[q]
        /\ (loads' # loads \/ frame' # frame) =>
              \A q \in DOMAIN proxies \ {frame.proxy} :
                 /\ q \in DOMAIN proxies'
                 /\ proxies'[q] = proxies[q]
      ]_vars

\* Two proxies of one namespace: the first has a descriptor, and a read of
\* that attribute on the second gave no warning.
C17_Witness ==
    /\ DOMAIN proxies = {"proxy1", "proxy2"}
    /\ proxies["proxy1"].dict["_introspection_module"]
          = proxies["proxy2"].dict["_introspection_module"]
    /\ "A" \in DOMAIN proxies["proxy1"].type_dict
    /\ "A" \notin DOMAIN proxies["proxy2"].type_dict
    /\ last.op = "get"
    /\ last.obj = "proxy2"
    /\ last.name = "A"
    /\ last.warnings = << >>

\* C18: whatever loads, override and deprecated_attr calls and attribute
\* writes and deletes on proxies were made, an override call for a
\* namespace whose load fell back to the module included, every introspected
\* module has the attributes and the values it had at the start.
C18_ModuleNeverMutated ==
    \A ns \in Namespaces : mod_dict[ns] = ModuleAttrs(ns)

\* C19: when a load call has failed (the override unit raised, or a
\* consistency check failed) every alias of the namespace still resolves
\* to the proxy of that load, the registry holds no entry for the
\* namespace, and no descriptor is installed on the proxy's type for a part
\* of the registered attributes.
C19_FailedLoadLeavesOnlyAliases ==
    (last.op = "load" /\ last.exc # "") =>
        /\ sys_modules[AliasKey(PREFIX[1], last.obj)] \in DOMAIN proxies
        /\ AliasesResolveTo(sys_modules, last.obj,
                            sys_modules[AliasKey(PREFIX[1], last.obj)])
        /\ last.obj \notin DOMAIN deprecated_attrs
        /\ proxies[sys_modules[AliasKey(PREFIX[1], last.obj)]].type_dict
              = EmptyDict

\* The proxy the last load returned is not the first one made for its
\* namespace.
LoadedAgain ==
    /\ last.op = "load"
    /\ last.exc = ""
    /\ last.ret \in DOMAIN proxies
    /\ \E q \in DOMAIN proxies \ {last.ret} :
          proxies[q].dict["_introspection_module"] = ModObj(last.obj)

\* C20: after a namespace was loaded again and load returned the proxy,
\* every alias resolves to that one proxy; every exported name is bound on
\* it once, as an attribute or as a descriptor, to the object of the
\* override unit; and the registry holds no entry for the namespace.
C20_SecondLoadBindsOnce ==
    LoadedAgain =>
        /\ AliasesResolveTo(sys_modules, last.obj, last.ret)
        /\ \A n \in Range(imported[last.obj].all) :
              /\ (n \in DOMAIN proxies[last.ret].dict)
                    # (n \in DOMAIN proxies[last.ret].type_dict)
              /\ n \in DOMAIN proxies[last.ret].dict =>
                    proxies[last.ret].dict[n] = imported[last.obj].vars[n]
              /\ n \in DOMAIN proxies[last.ret].type_dict =>
                    proxies[last.ret].type_dict[n].value
                       = imported[last.obj].vars[n]
        /\ last.obj \notin DOMAIN deprecated_attrs

\* The second load of a namespace whose first proxy has a descriptor.
C20_Witness ==
    /\ LoadedAgain
    /\ last.obj = "Gtk"
    /\ last.ret = "proxy2"
    /\ "A" \in DOMAIN proxies["proxy1"].type_dict
    /\ "A" \in Range(imported["Gtk"].all)
    /\ "A" \in DOMAIN proxies["proxy2"].dict
    /\ proxies["proxy2"].dict["A"] = OvObj("Gtk", "A")

====
